---- MODULE Spec2Model ----
(***************************************************************************)
(* Verse merging, match verification and lexical search of                *)
(* Islamic_Eval_2025.                                                      *)
(*                                                                         *)
(* Two programs of the repository share the algorithms modelled here:     *)
(*   impl = "verifier" : the package src/src (verifier.py, verse_merger.py)*)
(*   impl = "script"   : the one-file script "1b code.py" (unnamed part)   *)
(*                                                                         *)
(* Strings that the code parses or formats (verse_id, composite_key) are  *)
(* sequences of one-character strings; texts that the code only compares  *)
(* and concatenates (ayah_text, hadithTxt, query_text) are TLA+ strings.  *)
(* similarity_score is an integer number of tenths.                        *)
(*                                                                         *)
(* The search engines (quran_search.py, Hadith_search.py) are modelled     *)
(* from what their libraries hand them: the matches the word index reports *)
(* for the query words, and the cosine similarities of the corpus records. *)
(***************************************************************************)
EXTENDS Integers, Sequences, FiniteSets, TLC

VARIABLES
    impl,               \* which program runs: "verifier" or "script"
    mphase,             \* merge-only specification: "input", "merged", "remerged"
    verses_data,        \* argument of the last merge_ayas_from_retrieval call
    merged_results,     \* its return value (<<>> when it raised)
    merge_raised,       \* TRUE when that call raised
    pc,                 \* position of the run: "idle", "loop", "matches", "break", "done", "crashed"
    runs,               \* number of runs started so far
    fed,                \* number of query items loaded so far, over all runs
    final_exists,       \* the final snapshot file exists
    final_file,         \* its content: a list of results
    final_loadable,     \* joblib.load of the file returns such a list
    snapshot,           \* content of the most recent timestamped snapshot
    existing_results,   \* composite_key -> result, loaded at the start of a run
    resume_point,       \* snapshot the interrupted run left behind, while the same input is run again
    data,               \* the loaded input: a list of query items
    idx,                \* 1-based position of the run in data
    output,             \* results of this run so far
    qstate,             \* state of the query at idx (or of the last one when pc = "loop")
    outcomes,           \* how each query before idx ended in this run
    match_list,         \* candidates of the current query, after merging
    text_key,           \* text field selected for the current query
    processed_matches,  \* matches appended so far for the current query
    mi,                 \* 1-based position of process_matches in match_list
    calls,              \* verifier calls of the current query: [text, answer], [text] when it raised
    engine,             \* search specification: "quran" or "hadith"
    sphase,             \* search specification: "input" or "searched"
    total_query_words,  \* len(words) of the cleaned query
    search_results,     \* what the word index reports: [word_index, verse_key, position]
    authentic_quran_data, \* the reference lookup, <<>> when none is loaded
    similarities,       \* cosine similarity of the query to each corpus record, in corpus order
    max_results,        \* max_results / top_k
    results,            \* return value of the search
    hadith_data,        \* HadithSearchEngine.hadith_data: the records of the last load
    hadith_texts,       \* HadithSearchEngine.hadith_texts: one searchable text per record
    hadith_ids,         \* HadithSearchEngine.hadith_ids: one hadithID per record, <<>> for None
    tfidf_matrix,       \* the texts build_index fitted, one row each; <<>> while it is None
    index_fresh,        \* build_index ran after the last load
    loads,              \* number of load_data / load_data_from_file calls so far
    search_raised       \* TRUE when the search raised

mergeVars == <<mphase, verses_data, merged_results, merge_raised>>

fileVars == <<final_exists, final_file, final_loadable, snapshot>>

queryVars == <<match_list, text_key, processed_matches, mi, calls>>

runVars == <<pc, runs, fed, existing_results, resume_point, data, idx, output, qstate,
            outcomes>>

searchVars == <<engine, sphase, total_query_words, search_results, authentic_quran_data,
                similarities, max_results, results>>

loadVars == <<hadith_data, hadith_texts, hadith_ids, tfidf_matrix, index_fresh, loads,
              search_raised>>

vars == <<impl, mergeVars, fileVars, runVars, queryVars, searchVars, loadVars>>

----------------------------------------------------------------------------
(* Bounds *)

MaxVerses == 4          \* longest candidate list handed to the merge specification

MaxRuns == 2            \* runs of the program over the same results folder

MaxQueries == 2         \* query items loaded over all runs together

MaxMatches == 5         \* occurrences the word index reports for one query

MaxResults == 2         \* largest max_results / top_k asked for

MaxDocs == 3            \* records of the Hadith corpus

MaxLoads == 2           \* load_data / load_data_from_file calls on one engine

MaxLoadDocs == 2        \* records handed to one load

----------------------------------------------------------------------------
(* Python helpers *)

Digits == <<"0", "1", "2", "3", "4", "5", "6", "7", "8", "9">>

IsDigit(c) == \E d \in 1..10 : Digits[d] = c

DigitVal(c) == (CHOOSE d \in 1..10 : Digits[d] = c) - 1

\* str(n) for an int n
RECURSIVE str(_)
str(n) ==
    IF n < 0 THEN <<"-">> \o str(0 - n)
    ELSE IF n < 10 THEN <<Digits[n + 1]>>
    ELSE str(n \div 10) \o <<Digits[(n % 10) + 1]>>

\* s.split(sep) for a one-character separator
RECURSIVE split(_, _)
split(s, sep) ==
    IF \A i \in 1..Len(s) : s[i] # sep THEN <<s>>
    ELSE LET i == CHOOSE j \in 1..Len(s) :
                      s[j] = sep /\ \A k \in 1..(j - 1) : s[k] # sep
         IN  <<SubSeq(s, 1, i - 1)>> \o split(SubSeq(s, i + 1, Len(s)), sep)

RECURSIVE DigitsValue(_)
DigitsValue(s) ==
    IF s = <<>> THEN 0
    ELSE 10 * DigitsValue(SubSeq(s, 1, Len(s) - 1)) + DigitVal(s[Len(s)])

\* int(s): an optional sign followed by at least one digit, else ValueError
int(s) ==
    LET neg  == s # <<>> /\ s[1] = "-"
        body == IF neg THEN Tail(s) ELSE s
        ok   == body # <<>> /\ \A i \in 1..Len(body) : IsDigit(body[i])
    IN  IF ok
        THEN [ok |-> TRUE, val |-> IF neg THEN 0 - DigitsValue(body) ELSE DigitsValue(body)]
        ELSE [ok |-> FALSE, val |-> 0]

\* dict.get(k) with None as the empty tuple and a present value v as <<v>>
get(d, k) == IF k \in DOMAIN d THEN <<d[k]>> ELSE <<>>

\* dict.get(k, default)
getd(d, k, default) == IF k \in DOMAIN d THEN d[k] ELSE default

\* a copy of dict d with d[k] = v
put(d, k, v) == [x \in DOMAIN d \cup {k} |-> IF x = k THEN v ELSE d[x]]

\* a copy of dict d after d.pop(k, None) for every k of ks
pop(d, ks) == [x \in DOMAIN d \ ks |-> d[x]]

\* sep.join(texts)
RECURSIVE join(_, _)
join(sep, texts) ==
    IF texts = <<>> THEN ""
    ELSE IF Len(texts) = 1 THEN texts[1]
    ELSE texts[1] \o sep \o join(sep, Tail(texts))

RECURSIVE max(_)
max(xs) ==
    IF Len(xs) = 1 THEN xs[1]
    ELSE LET m == max(Tail(xs)) IN IF xs[1] >= m THEN xs[1] ELSE m

\* tuple comparison a < b of two pairs of ints
TupleLess(a, b) == a[1] < b[1] \/ (a[1] = b[1] /\ a[2] < b[2])

----------------------------------------------------------------------------
(* verse_merger.py *)

\* surah_num, ayah_num = map(int, verse_id.split(':'))
ParseVerseId(verse_id) ==
    LET parts == split(verse_id, ":")
        surah == int(parts[1])
        ayah  == int(parts[2])
    IN  IF Len(parts) = 2 /\ surah.ok /\ ayah.ok
        THEN [ok |-> TRUE, surah_num |-> surah.val, ayah_num |-> ayah.val]
        ELSE [ok |-> FALSE, surah_num |-> 0, ayah_num |-> 0]

\* the record appended to parsed_verses for one input record
ParsedVerse(verse) ==
    LET p == ParseVerseId(verse.verse_id)
    IN  IF p.ok
        THEN put(put(verse, "surah_num", p.surah_num), "ayah_num", p.ayah_num)
        ELSE verse

\* variant: the key's components swapped
SortKey_ayah_first(x) == <<getd(x, "ayah_num", 0), getd(x, "surah_num", 0)>>

\* the sort key of parsed_verses.sort
SortKey(x) == <<getd(x, "surah_num", 0), getd(x, "ayah_num", 0)>>

\* list.sort(key=SortKey): stable, ascending
RECURSIVE InsertSorted(_, _)
InsertSorted(sorted, x) ==
    IF sorted = <<>> THEN <<x>>
    ELSE IF TupleLess(SortKey(x), SortKey(sorted[Len(sorted)]))
         THEN InsertSorted(SubSeq(sorted, 1, Len(sorted) - 1), x)
                  \o <<sorted[Len(sorted)]>>
         ELSE Append(sorted, x)

RECURSIVE sort(_)
sort(xs) ==
    IF xs = <<>> THEN <<>>
    ELSE InsertSorted(sort(SubSeq(xs, 1, Len(xs) - 1)), xs[Len(xs)])

\* the test that keeps current_verse in the group ending with last_verse
Consecutive(current_verse, last_verse) ==
    /\ get(current_verse, "surah_num") = get(last_verse, "surah_num")
    /\ get(current_verse, "ayah_num") = <<getd(last_verse, "ayah_num", 0) + 1>>

\* the scan over the sorted records: groups is the list of closed groups
\* followed by current_group
RECURSIVE GroupScan(_, _, _)
GroupScan(parsed_verses, i, groups) ==
    IF i > Len(parsed_verses) THEN groups
    ELSE LET current_group == groups[Len(groups)]
             current_verse == parsed_verses[i]
             last_verse    == current_group[Len(current_group)]
         IN  IF Consecutive(current_verse, last_verse)
             THEN GroupScan(parsed_verses, i + 1,
                            [groups EXCEPT ![Len(groups)] = Append(current_group, current_verse)])
             ELSE GroupScan(parsed_verses, i + 1, Append(groups, <<current_verse>>))

\* variant: the group takes the score of its first member
create_merged_entry_first_score(group) ==
    IF Len(group) = 1
    THEN pop(group[1], {"surah_num", "ayah_num"})
    ELSE [verse_id         |-> str(group[1].surah_num) \o <<":">> \o str(group[1].ayah_num)
                                   \o <<"-">> \o str(group[Len(group)].ayah_num),
          similarity_score |-> group[1].similarity_score,
          surah_name       |-> group[1].surah_name,
          ayah_text        |-> join(" ", [i \in 1..Len(group) |-> group[i].ayah_text]),
          merged_count     |-> Len(group),
          original_verses  |-> [i \in 1..Len(group) |-> group[i].verse_id]]

\* variant: the group keeps the verse_id of its first member
create_merged_entry_first_id(group) ==
    IF Len(group) = 1
    THEN pop(group[1], {"surah_num", "ayah_num"})
    ELSE [verse_id         |-> group[1].verse_id,
          similarity_score |-> max([i \in 1..Len(group) |-> group[i].similarity_score]),
          surah_name       |-> group[1].surah_name,
          ayah_text        |-> join(" ", [i \in 1..Len(group) |-> group[i].ayah_text]),
          merged_count     |-> Len(group),
          original_verses  |-> [i \in 1..Len(group) |-> group[i].verse_id]]

\* variant: a single verse keeps the helper fields surah_num and ayah_num
create_merged_entry_keep_helpers(group) ==
    IF Len(group) = 1
    THEN group[1]
    ELSE [verse_id         |-> str(group[1].surah_num) \o <<":">> \o str(group[1].ayah_num)
                                   \o <<"-">> \o str(group[Len(group)].ayah_num),
          similarity_score |-> max([i \in 1..Len(group) |-> group[i].similarity_score]),
          surah_name       |-> group[1].surah_name,
          ayah_text        |-> join(" ", [i \in 1..Len(group) |-> group[i].ayah_text]),
          merged_count     |-> Len(group),
          original_verses  |-> [i \in 1..Len(group) |-> group[i].verse_id]]

create_merged_entry(group) ==
    IF Len(group) = 1
    THEN pop(group[1], {"surah_num", "ayah_num"})
    ELSE LET first_verse == group[1]
             last_verse  == group[Len(group)]
             merged_verse_id ==
                 IF first_verse.ayah_num = last_verse.ayah_num
                 THEN first_verse.verse_id
                 ELSE str(first_verse.surah_num) \o <<":">> \o str(first_verse.ayah_num)
                          \o <<"-">> \o str(last_verse.ayah_num)
         IN  [verse_id         |-> merged_verse_id,
              similarity_score |-> max([i \in 1..Len(group) |-> group[i].similarity_score]),
              surah_name       |-> first_verse.surah_name,
              ayah_text        |-> join(" ", [i \in 1..Len(group) |-> group[i].ayah_text]),
              merged_count     |-> Len(group),
              original_verses  |-> [i \in 1..Len(group) |-> group[i].verse_id]]

\* the groups the scan forms from the input, before they are materialised
MergeGroups(vd) ==
    LET parsed_verses == sort([i \in 1..Len(vd) |-> ParsedVerse(vd[i])])
    IN  GroupScan(parsed_verses, 2, <<<<parsed_verses[1]>>>>)

\* verse_merger.py: a record whose verse_id does not parse is kept unparsed
merge_ayas_from_retrieval(vd) ==
    IF vd = <<>> THEN [raised |-> FALSE, value |-> <<>>]
    ELSE LET groups == MergeGroups(vd)
         IN  [raised |-> FALSE,
              value  |-> [g \in 1..Len(groups) |-> create_merged_entry(groups[g])]]

\* the script's copy: identical but for the unguarded parse, which raises
script_merge_ayas_from_retrieval(vd) ==
    IF vd = <<>> THEN [raised |-> FALSE, value |-> <<>>]
    ELSE IF \E i \in 1..Len(vd) : ~ParseVerseId(vd[i].verse_id).ok
    THEN [raised |-> TRUE, value |-> <<>>]
    ELSE merge_ayas_from_retrieval(vd)

Merge(program, vd) ==
    IF program = "script" THEN script_merge_ayas_from_retrieval(vd)
    ELSE merge_ayas_from_retrieval(vd)

\* variant: the records are annotated and sorted in the caller's list
verses_data_after_in_place(vd) == sort([i \in 1..Len(vd) |-> ParsedVerse(vd[i])])

\* the caller's list after the call: the helper fields go into copies
\* (verse.copy()) and the sort is applied to the new list parsed_verses
verses_data_after(vd) == vd

----------------------------------------------------------------------------
(* Inputs *)

Impls == {"verifier", "script"}

\* canonical text and chapter name of a verse
AyahText(verse_id) == "t" \o join("", verse_id)

SurahName(verse_id) == "s" \o join("", split(verse_id, ":")[1])

VerseRecord(verse_id, score) ==
    [verse_id |-> verse_id, similarity_score |-> score,
     surah_name |-> SurahName(verse_id), ayah_text |-> AyahText(verse_id)]

Scores == {7, 9}

\* the verses of surah 1 come with every score, those of surah 2 with one
VerseRecords ==
    { VerseRecord(v, s) :
        v \in { <<"1", ":", "1">>, <<"1", ":", "2">>, <<"1", ":", "3">>, <<"1", ":", "4">> },
        s \in Scores } \cup
    { VerseRecord(<<"2", ":", "1">>, 7),
      VerseRecord(<<"2", ":", "1", "5", "5">>, 9),
      VerseRecord(<<"2", ":", "1", "5", "6">>, 7) }

\* lists of at most n records with pairwise different verse_ids
RECURSIVE VerseLists(_)
VerseLists(n) ==
    IF n = 0 THEN {<<>>}
    ELSE LET shorter == VerseLists(n - 1)
         IN  shorter \cup
             { Append(l[1], l[2]) :
                 l \in { x \in shorter \X VerseRecords :
                            /\ Len(x[1]) = n - 1
                            /\ \A i \in 1..Len(x[1]) : x[1][i].verse_id # x[2].verse_id } }

MergeInputs == VerseLists(MaxVerses)

\* the script's copy of the merge differs only in the parse; it is run on
\* the lists one record shorter
ShortMergeInputs == VerseLists(MaxVerses - 1)

----------------------------------------------------------------------------
(* Query items *)

SeqIds == {1, 2}

V(s, a) == str(s) \o <<":">> \o str(a)

\* two retrieval lists, in relevance order: the first holds a pair of
\* consecutive verses, the second does not
VerseListA == << VerseRecord(V(1, 4), 9), VerseRecord(V(1, 1), 7),
                 VerseRecord(V(1, 2), 9), VerseRecord(V(2, 1), 7) >>

VerseListB == << VerseRecord(V(2, 1), 7), VerseRecord(V(1, 4), 7) >>

HadithRecord(id) == [hadithID |-> id, hadithTxt |-> "h" \o join("", str(id))]

HadithList == << HadithRecord(1), HadithRecord(2) >>

\* a retrieval list whose second record has no hadithTxt field
HadithListNoText == << HadithRecord(1), [hadithID |-> 3], HadithRecord(2) >>

QueryItem(sequence_id, question_id, query_text, span_type, cands) ==
    [sequence_id |-> sequence_id, question_id |-> question_id,
     query_text |-> query_text, span_type |-> span_type,
     top_20_match_details |-> cands]

Items ==
    { QueryItem(s, 10, "qa", "Ayah", VerseListA)          : s \in SeqIds } \cup
    { QueryItem(s, 11, "qb", "Ayah", VerseListB)          : s \in SeqIds } \cup
    { QueryItem(s, 12, "qc", "WrongAyah", VerseListA)     : s \in SeqIds } \cup
    { QueryItem(s, 13, "qd", "Hadith", HadithList)        : s \in SeqIds } \cup
    { QueryItem(s, 14, "qe", "WrongHadith", HadithList)   : s \in SeqIds } \cup
    { QueryItem(s, 15, "qf", "WrongHadith", HadithListNoText) : s \in SeqIds }

\* input files of at most n items; sequence_id identifies an item of a file
RECURSIVE DataLists(_)
DataLists(n) ==
    IF n = 0 THEN {<<>>}
    ELSE LET shorter == DataLists(n - 1)
         IN  shorter \cup
             UNION { { Append(l, it) :
                           it \in {y \in Items : \A i \in 1..(n - 1) :
                                                    l[i].sequence_id # y.sequence_id} } :
                       l \in {x \in shorter : Len(x) = n - 1} }

\* input files in which the sequence_id of the first item comes again
RepeatItems == {it \in Items : it.sequence_id = 1 /\ it.question_id \in {11, 13, 14}}

RepeatLists == {<<a, b>> : a \in RepeatItems, b \in RepeatItems}

InputFiles(n) == DataLists(n) \cup (IF n >= 2 THEN RepeatLists ELSE {})

----------------------------------------------------------------------------
(* verifier.py and the script's main loop *)

\* composite_key = f"{sequence_id}"
CompositeKey(sequence_id) == str(sequence_id)

\* load_existing_results: later items of the file replace earlier ones
\* that have the same key
load_existing_results(exists, file) ==
    IF ~exists THEN <<>>
    ELSE LET keys == {CompositeKey(file[i].sequence_id) : i \in 1..Len(file)}
             last(k) == CHOOSE i \in 1..Len(file) :
                            /\ CompositeKey(file[i].sequence_id) = k
                            /\ \A j \in (i + 1)..Len(file) :
                                   CompositeKey(file[j].sequence_id) # k
         IN  [k \in keys |-> file[last(k)]]

\* IslamicTextVerifier.get_text_key
get_text_key(span_type) ==
    IF span_type \in {"WrongAyah", "CorrectAyah"} THEN [raised |-> FALSE, key |-> "ayah_text"]
    ELSE IF span_type \in {"WrongHadith", "CorrectHadith"} THEN [raised |-> FALSE, key |-> "hadithTxt"]
    ELSE [raised |-> TRUE, key |-> ""]

\* the script's text_key selection
script_text_key(span_type) ==
    IF span_type = "Ayah" THEN [raised |-> FALSE, key |-> "ayah_text"]
    ELSE IF span_type = "Hadith" THEN [raised |-> FALSE, key |-> "hadithTxt"]
    ELSE [raised |-> TRUE, key |-> ""]

TextKey(program, span_type) ==
    IF program = "script" THEN script_text_key(span_type) ELSE get_text_key(span_type)

\* the candidate list a query is verified on
MergedList(program, item) ==
    IF item.span_type = "Ayah"
    THEN Merge(program, item.top_20_match_details)
    ELSE [raised |-> FALSE, value |-> item.top_20_match_details]

is_merged(item, list) == Len(item.top_20_match_details) # Len(list)

\* variant: the stored result is returned only for an unchanged query text
CacheSkip_same_query(existing, item, list) ==
    /\ CompositeKey(item.sequence_id) \in DOMAIN existing
    /\ ~is_merged(item, list)
    /\ existing[CompositeKey(item.sequence_id)].query = item.query_text

\* the cache-skip test of process_single_query
CacheSkip(existing, item, list) ==
    /\ CompositeKey(item.sequence_id) \in DOMAIN existing
    /\ ~is_merged(item, list)

\* variant: the stored entries are compared on their verse_id
found_in_existing_by_id(existing, composite_key, key, candidate_text) ==
    IF composite_key \notin DOMAIN existing THEN <<>>
    ELSE LET Test(ent) == get(ent, "verse_id") = <<candidate_text>> /\ "detection" \in DOMAIN ent
         IN  SelectSeq(existing[composite_key].matches, Test)

\* found_in_existing of process_matches
found_in_existing(existing, composite_key, key, candidate_text) ==
    IF composite_key \notin DOMAIN existing THEN <<>>
    ELSE LET Test(ent) == get(ent, key) = <<candidate_text>> /\ "detection" \in DOMAIN ent
         IN  SelectSeq(existing[composite_key].matches, Test)

\* the script compares ent["ayah_text"] whatever text_key is; an entry
\* without that field raises KeyError
script_found_raises(existing, composite_key) ==
    /\ composite_key \in DOMAIN existing
    /\ \E i \in 1..Len(existing[composite_key].matches) :
           "ayah_text" \notin DOMAIN existing[composite_key].matches[i]

FoundInExisting(program, existing, composite_key, key, candidate_text) ==
    found_in_existing(existing, composite_key,
                      IF program = "script" THEN "ayah_text" ELSE key, candidate_text)

\* variant: the loop goes on after a match
verified_pc_never_break(detection) == "matches"

\* variant: the loop ends after the first verification
verified_pc_always_break(detection) == "break"

\* where process_matches goes after a verification: "if detection: break"
verified_pc(detection) == IF detection THEN "break" ELSE "matches"

\* the dictionary process_single_query returns after process_matches
Result(item, matches) ==
    [id |-> item.question_id, query |-> item.query_text,
     sequence_id |-> item.sequence_id, span_type |-> item.span_type,
     matches |-> matches]

\* variant: the results are added to what the file holds
save_results_appending(out, file) == file \o out

\* save_results: joblib.dump(output, filepath) replaces the file's content
save_results(out, file) == out

\* variant: a result is stored under its key as soon as it is produced
store_after_written(existing, result) ==
    put(existing, CompositeKey(result.sequence_id), result)

\* self.existing_results after a result has been appended to output: no
\* statement of the loop writes to it
store_after(existing, result) == existing

\* variant: the newest result is put first
append_result_first(out, result) == <<result>> \o out

\* output.append(result)
append_result(out, result) == Append(out, result)

Item == data[idx]

Key == CompositeKey(Item.sequence_id)

\* no search engine has been constructed
IdleSearch ==
    /\ engine = "none"
    /\ sphase = "input"
    /\ total_query_words = 0
    /\ search_results = {}
    /\ authentic_quran_data = <<>>
    /\ similarities = <<>>
    /\ max_results = 0
    /\ results = <<>>

\* HadithSearchEngine.__init__: nothing is loaded, no index is built
IdleLoad ==
    /\ hadith_data = <<>>
    /\ hadith_texts = <<>>
    /\ hadith_ids = <<>>
    /\ tfidf_matrix = <<>>
    /\ index_fresh = FALSE
    /\ loads = 0
    /\ search_raised = FALSE

IdleRun ==
    /\ pc = "idle"
    /\ runs = 0
    /\ fed = 0
    /\ final_exists = FALSE
    /\ final_file = <<>>
    /\ final_loadable = TRUE
    /\ snapshot = <<>>
    /\ existing_results = <<>>
    /\ resume_point = <<>>
    /\ data = <<>>
    /\ idx = 1
    /\ output = <<>>
    /\ qstate = "PENDING"
    /\ outcomes = <<>>
    /\ match_list = <<>>
    /\ text_key = ""
    /\ processed_matches = <<>>
    /\ mi = 1
    /\ calls = <<>>

Init ==
    /\ impl \in Impls
    /\ mphase = "input"
    /\ verses_data = <<>>
    /\ merged_results = <<>>
    /\ merge_raised = FALSE
    /\ IdleRun
    /\ IdleSearch
    /\ IdleLoad

\* the last saved snapshot when it holds results of this run (every
\* snapshot a run writes is a prefix of its output), <<>> otherwise
RunSnapshot ==
    IF /\ snapshot # <<>>
       /\ Len(snapshot) <= Len(output)
       /\ snapshot = SubSeq(output, 1, Len(snapshot))
    THEN snapshot
    ELSE <<>>

\* before the first run, the results folder already holds a final file
\* that is not a checkpoint of this program (damaged, or of another schema)
ForeignFinal ==
    /\ pc = "idle"
    /\ ~final_exists
    /\ final_exists' = TRUE
    /\ final_loadable' = FALSE
    /\ UNCHANGED <<impl, loadVars, searchVars, mergeVars, final_file, snapshot, runVars, queryVars>>

\* the script loads the final file with no handler: a file that does not
\* load ends the script before its loop
StartRunLoadFails ==
    /\ pc \in {"idle", "done", "crashed"}
    /\ runs < MaxRuns
    /\ impl = "script"
    /\ final_exists
    /\ ~final_loadable
    /\ runs' = runs + 1
    /\ pc' = "crashed"
    /\ UNCHANGED <<impl, loadVars, searchVars, mergeVars, fileVars, fed, existing_results, resume_point,
                   data, idx, output, qstate, outcomes, queryVars>>

\* run(): load_existing_results (a file that does not load leaves the store
\* empty, with a warning), load_input_data, output = []; the input file is a
\* new one, or the one of the run that has just completed
StartRun ==
    /\ pc \in {"idle", "done", "crashed"}
    /\ runs < MaxRuns
    /\ \/ \E d \in InputFiles(MaxQueries - fed) :
              /\ data' = d
              /\ fed' = fed + Len(d)
       \/ /\ pc = "done"
          /\ data # <<>>
          /\ data' = data
          /\ fed' = fed
    /\ resume_point' = IF pc = "crashed" /\ data' = data THEN resume_point ELSE <<>>
    /\ ~(impl = "script" /\ final_exists /\ ~final_loadable)
    /\ existing_results' = IF final_loadable
                           THEN load_existing_results(final_exists, final_file)
                           ELSE <<>>
    /\ runs' = runs + 1
    /\ output' = <<>>
    /\ idx' = 1
    /\ qstate' = "PENDING"
    /\ outcomes' = <<>>
    /\ pc' = "loop"
    /\ UNCHANGED <<impl, loadVars, searchVars, mergeVars, fileVars, queryVars>>

\* process_single_query, cache-skip path: the stored result is returned and
\* appended; the package then saves a snapshot, the script does not
QueryCached ==
    /\ pc = "loop"
    /\ idx <= Len(data)
    /\ LET m == MergedList(impl, Item)
       IN  /\ ~m.raised
           /\ CacheSkip(existing_results, Item, m.value)
           /\ match_list' = m.value
    /\ output' = append_result(output, existing_results[Key])
    /\ snapshot' = IF impl = "script" THEN snapshot ELSE output'
    /\ qstate' = "CACHED_SKIP"
    /\ idx' = idx + 1
    /\ calls' = <<>>
    /\ processed_matches' = <<>>
    /\ mi' = 1
    /\ outcomes' = Append(outcomes, "CACHED_SKIP")
    /\ existing_results' = store_after(existing_results, existing_results[Key])
    /\ UNCHANGED <<impl, loadVars, searchVars, mergeVars, final_exists, final_file, final_loadable, pc, runs, fed,
                   resume_point, data, text_key>>

\* process_single_query, text-key selection raises ValueError: the package's
\* run() catches it and goes on with the next item, the script ends
QueryUnknownSpan ==
    /\ pc = "loop"
    /\ idx <= Len(data)
    /\ LET m == MergedList(impl, Item)
       IN  /\ ~m.raised
           /\ ~CacheSkip(existing_results, Item, m.value)
           /\ match_list' = m.value
    /\ TextKey(impl, Item.span_type).raised
    /\ qstate' = "ERROR"
    /\ IF impl = "script"
       THEN pc' = "crashed" /\ idx' = idx /\ resume_point' = RunSnapshot
       ELSE pc' = "loop" /\ idx' = idx + 1 /\ resume_point' = resume_point
    /\ calls' = <<>>
    /\ processed_matches' = <<>>
    /\ mi' = 1
    /\ outcomes' = Append(outcomes, "ERROR")
    /\ UNCHANGED <<impl, loadVars, searchVars, mergeVars, fileVars, runs, fed, existing_results, data,
                   output, text_key>>

\* process_single_query up to the call of process_matches
QueryStart ==
    /\ pc = "loop"
    /\ idx <= Len(data)
    /\ LET m == MergedList(impl, Item)
       IN  /\ ~m.raised
           /\ ~CacheSkip(existing_results, Item, m.value)
           /\ match_list' = m.value
    /\ ~TextKey(impl, Item.span_type).raised
    /\ text_key' = TextKey(impl, Item.span_type).key
    /\ qstate' = "VERIFYING"
    /\ pc' = "matches"
    /\ calls' = <<>>
    /\ processed_matches' = <<>>
    /\ mi' = 1
    /\ UNCHANGED <<impl, loadVars, searchVars, mergeVars, fileVars, runs, fed, existing_results, resume_point, data,
                   idx, output, outcomes>>

\* one iteration of the loop of process_matches that reuses a stored entry
MatchReuse ==
    /\ pc = "matches"
    /\ mi <= Len(match_list)
    /\ text_key \in DOMAIN match_list[mi]
    /\ ~(impl = "script" /\ script_found_raises(existing_results, Key))
    /\ LET found == FoundInExisting(impl, existing_results, Key, text_key,
                                    match_list[mi][text_key])
       IN  /\ found # <<>>
           /\ processed_matches' = Append(processed_matches, found[1])
    /\ mi' = mi + 1
    /\ UNCHANGED <<impl, loadVars, searchVars, mergeVars, fileVars, runVars, match_list, text_key, calls>>

\* one iteration that calls the verifier; a true answer leaves the loop
MatchVerify ==
    /\ pc = "matches"
    /\ mi <= Len(match_list)
    /\ text_key \in DOMAIN match_list[mi]
    /\ ~(impl = "script" /\ script_found_raises(existing_results, Key))
    /\ FoundInExisting(impl, existing_results, Key, text_key,
                       match_list[mi][text_key]) = <<>>
    /\ \E detection \in BOOLEAN :
           /\ calls' = Append(calls, [text |-> match_list[mi][text_key],
                                      answer |-> detection])
           /\ processed_matches' =
                  Append(processed_matches, put(match_list[mi], "detection", detection))
           /\ pc' = verified_pc(detection)
    /\ mi' = mi + 1
    /\ UNCHANGED <<impl, loadVars, searchVars, mergeVars, fileVars, runs, fed, existing_results, resume_point, data,
                   idx, output, qstate, match_list, text_key, outcomes>>

\* where the run goes when processing an item raises: the package's run()
\* catches the exception and continues with the next item, the script has
\* no handler
on_exception_uncaught(program) == "crashed"

on_exception(program) == IF program = "script" THEN "crashed" ELSE "loop"

\* one iteration in which the verifier call raises (llm.invoke fails):
\* nothing is appended to processed_matches; the call is logged without an
\* answer
MatchVerifyRaises ==
    /\ pc = "matches"
    /\ mi <= Len(match_list)
    /\ text_key \in DOMAIN match_list[mi]
    /\ ~(impl = "script" /\ script_found_raises(existing_results, Key))
    /\ FoundInExisting(impl, existing_results, Key, text_key,
                       match_list[mi][text_key]) = <<>>
    /\ calls' = Append(calls, [text |-> match_list[mi][text_key]])
    /\ qstate' = "ERROR"
    /\ outcomes' = Append(outcomes, "ERROR")
    /\ pc' = on_exception(impl)
    /\ IF pc' = "crashed"
       THEN idx' = idx /\ resume_point' = RunSnapshot
       ELSE idx' = idx + 1 /\ resume_point' = resume_point
    /\ UNCHANGED <<impl, loadVars, searchVars, mergeVars, fileVars, runs, fed, existing_results, data,
                   output, match_list, text_key, processed_matches, mi>>

\* the script's lookup of a stored entry without ayah_text ends the script
MatchKeyError ==
    /\ pc = "matches"
    /\ mi <= Len(match_list)
    /\ text_key \in DOMAIN match_list[mi]
    /\ impl = "script"
    /\ script_found_raises(existing_results, Key)
    /\ pc' = "crashed"
    /\ qstate' = "ERROR"
    /\ resume_point' = RunSnapshot
    /\ outcomes' = Append(outcomes, "ERROR")
    /\ UNCHANGED <<impl, loadVars, searchVars, mergeVars, fileVars, runs, fed, existing_results, data,
                   idx, output, queryVars>>

\* candidate_text = match[text_key] on a candidate without that field
\* raises KeyError: the package's run() catches it and goes on with the next
\* item, the script ends
MatchMissingText ==
    /\ pc = "matches"
    /\ mi <= Len(match_list)
    /\ text_key \notin DOMAIN match_list[mi]
    /\ qstate' = "ERROR"
    /\ IF impl = "script"
       THEN pc' = "crashed" /\ idx' = idx /\ resume_point' = RunSnapshot
       ELSE pc' = "loop" /\ idx' = idx + 1 /\ resume_point' = resume_point
    /\ outcomes' = Append(outcomes, "ERROR")
    /\ UNCHANGED <<impl, loadVars, searchVars, mergeVars, fileVars, runs, fed, existing_results, data,
                   output, queryVars>>

\* process_matches returns; the result is appended and a snapshot is saved
QueryReturn ==
    /\ \/ pc = "break"
       \/ pc = "matches" /\ mi > Len(match_list)
    /\ output' = append_result(output, Result(Item, processed_matches))
    /\ snapshot' = output'
    /\ qstate' = "DONE"
    /\ idx' = idx + 1
    /\ pc' = "loop"
    /\ outcomes' = Append(outcomes, "DONE")
    /\ existing_results' = store_after(existing_results, Result(Item, processed_matches))
    /\ UNCHANGED <<impl, loadVars, searchVars, mergeVars, final_exists, final_file, final_loadable, runs, fed,
                   resume_point, data, queryVars>>

\* after the last item: the final snapshot replaces the final file
SaveFinal ==
    /\ pc = "loop"
    /\ idx > Len(data)
    /\ final_file' = save_results(output, final_file)
    /\ final_exists' = TRUE
    /\ final_loadable' = TRUE
    /\ pc' = "done"
    /\ UNCHANGED <<impl, loadVars, searchVars, mergeVars, snapshot, runs, fed, existing_results, resume_point, data,
                   idx, output, qstate, queryVars, outcomes>>

\* the process is interrupted (KeyboardInterrupt, kill) anywhere between
\* the start of the loop and the final save: nothing is written, the
\* snapshots stay as they are
Abort ==
    /\ pc \in {"loop", "matches", "break"}
    /\ pc' = "crashed"
    /\ resume_point' = RunSnapshot
    /\ UNCHANGED <<impl, loadVars, searchVars, mergeVars, fileVars, runs, fed, existing_results, data,
                   idx, output, qstate, queryVars, outcomes>>

Next ==
    \/ ForeignFinal
    \/ StartRunLoadFails
    \/ StartRun
    \/ QueryCached
    \/ QueryUnknownSpan
    \/ QueryStart
    \/ MatchReuse
    \/ MatchVerify
    \/ MatchVerifyRaises
    \/ MatchKeyError
    \/ MatchMissingText
    \/ QueryReturn
    \/ SaveFinal
    \/ Abort

Spec == Init /\ [][Next]_vars

\* the statements that take up the next query of the input
QueryStep ==
    \/ QueryCached
    \/ QueryUnknownSpan
    \/ QueryStart

\* the statements inside a query, and the final save
BodyStep ==
    \/ MatchReuse
    \/ MatchVerify
    \/ MatchVerifyRaises
    \/ MatchKeyError
    \/ MatchMissingText
    \/ QueryReturn
    \/ SaveFinal

\* runs that nobody interrupts
NextUninterrupted ==
    \/ ForeignFinal
    \/ StartRunLoadFails
    \/ StartRun
    \/ QueryStep
    \/ BodyStep

\* the run is at a query of its input: exactly then QueryStep is enabled
\* (every list of the inputs merges without raising)
AtQuery == pc = "loop" /\ idx <= Len(data)

\* a started run always executes its next statement, and the verifier
\* returns or raises: weak fairness of BodyStep and of QueryStep, the latter
\* written out with AtQuery for ENABLED <<QueryStep>>_vars
SpecUninterrupted ==
    /\ Init
    /\ [][NextUninterrupted]_vars
    /\ WF_vars(BodyStep)
    /\ ([]<>(~AtQuery) \/ []<><<QueryStep>>_vars)

----------------------------------------------------------------------------
(* The merge-only specification: merge applied to a drawn input, then to  *)
(* its own output.                                                         *)

InitMerge ==
    /\ impl \in Impls
    /\ mphase = "input"
    /\ verses_data \in (IF impl = "script" THEN ShortMergeInputs ELSE MergeInputs)
    /\ merged_results = <<>>
    /\ merge_raised = FALSE
    /\ IdleRun
    /\ IdleSearch
    /\ IdleLoad

MergeCall ==
    /\ mphase = "input"
    /\ LET r == Merge(impl, verses_data)
       IN  /\ merged_results' = r.value
           /\ merge_raised' = r.raised
    /\ verses_data' = verses_data_after(verses_data)
    /\ mphase' = "merged"
    /\ UNCHANGED <<impl, loadVars, searchVars, fileVars, runVars, queryVars>>

MergeAgain ==
    /\ mphase = "merged"
    /\ ~merge_raised
    /\ LET r == Merge(impl, merged_results)
       IN  /\ merged_results' = r.value
           /\ merge_raised' = r.raised
    /\ verses_data' = verses_data_after(merged_results)
    /\ mphase' = "remerged"
    /\ UNCHANGED <<impl, loadVars, searchVars, fileVars, runVars, queryVars>>

NextMerge == MergeCall \/ MergeAgain

SpecMerge == InitMerge /\ [][NextMerge]_vars

----------------------------------------------------------------------------
(* Properties of the verification of one query *)

\* process_single_query has just returned a freshly verified result
Returned == pc = "loop" /\ qstate = "DONE"

LastItem == data[idx - 1]

LastResult == output[Len(output)]

LastKey == CompositeKey(LastItem.sequence_id)

WithoutDetection(m) == [x \in DOMAIN m \ {"detection"} |-> m[x]]

\* the k-th match is the k-th (merged) candidate, annotated, and the k-th
\* verifier call was made on its text
FromCandidate(k) ==
    /\ WithoutDetection(LastResult.matches[k]) = match_list[k]
    /\ LastResult.matches[k].detection = calls[k].answer
    /\ calls[k].text = match_list[k][text_key]

\* C1: with no prior checkpoint entry, when the first verifier-true
\* candidate of the (merged) list is at 0-based index i, the returned match
\* list has length i+1, entries 0..i-1 have detection false, only the last
\* has detection true, and the verifier was called exactly i+1 times.
InvEarlyStop ==
    (/\ Returned
     /\ LastKey \notin DOMAIN existing_results
     /\ \E k \in 1..Len(calls) : calls[k].answer) =>
        LET first == CHOOSE k \in 1..Len(calls) :
                         calls[k].answer /\ \A j \in 1..(k - 1) : ~calls[j].answer
        IN  /\ Len(LastResult.matches) = first
            /\ Len(calls) = first
            /\ first <= Len(match_list)
            /\ \A k \in 1..first : FromCandidate(k)
            /\ \A k \in 1..(first - 1) : LastResult.matches[k].detection = FALSE
            /\ LastResult.matches[first].detection = TRUE

WitEarlyStop ==
    /\ Returned
    /\ LastKey \notin DOMAIN existing_results
    /\ Len(LastItem.top_20_match_details) = 4
    /\ Len(match_list) = 3
    /\ Len(calls) = 2
    /\ calls[2].answer
    /\ Len(LastResult.matches) = 2

\* C2: in every result, whatever the checkpoint store holds, nothing is
\* appended after an entry with detection true: at most one match has
\* detection true and it is the last one.
InvStopAfterTrue ==
    Returned =>
        \A k \in 1..(Len(LastResult.matches) - 1) :
            LastResult.matches[k].detection = FALSE

\* C3: a query whose sequence_id is in the checkpoint store and whose
\* candidate count merging left unchanged gets the stored result back,
\* unchanged and with no verifier call, whatever its query_text,
\* question_id, span_type and candidates are now.
InvCacheSkip ==
    /\ (/\ pc = "loop"
        /\ qstate # "PENDING"
        /\ LastKey \in DOMAIN existing_results
        /\ Len(LastItem.top_20_match_details) = Len(match_list)) =>
           /\ qstate = "CACHED_SKIP"
           /\ output # <<>>
           /\ LastResult = existing_results[LastKey]
           /\ calls = <<>>
    /\ pc \in {"matches", "break"} =>
           ~(/\ Key \in DOMAIN existing_results
             /\ Len(Item.top_20_match_details) = Len(match_list))

WitCacheSkip ==
    /\ pc = "loop"
    /\ qstate = "CACHED_SKIP"
    /\ calls = <<>>
    /\ LastResult = existing_results[LastKey]
    /\ LastResult.query # LastItem.query_text
    /\ LastResult.id # LastItem.question_id
    /\ LastResult.span_type # LastItem.span_type
    /\ Len(LastResult.matches) = 1
    /\ Len(LastItem.top_20_match_details) = 2

\* the stored matches of the query being (or just) verified
StoredMatches ==
    LET k == IF pc = "loop" THEN LastKey ELSE Key
    IN  IF k \in DOMAIN existing_results THEN existing_results[k].matches ELSE <<>>

\* C4: while sequence_id S is verified and the checkpoint store holds, under
\* S, a match with text T and a detection flag, the verifier is not invoked
\* on T and every emitted match with text T carries the stored detection.
InvTextReuse ==
    (pc \in {"matches", "break"} \/ Returned) =>
        \A j \in 1..Len(StoredMatches) :
            LET ent == StoredMatches[j]
            IN  (text_key \in DOMAIN ent /\ "detection" \in DOMAIN ent) =>
                    /\ \A k \in 1..Len(calls) : calls[k].text # ent[text_key]
                    /\ \A k \in 1..Len(processed_matches) :
                           processed_matches[k][text_key] = ent[text_key]
                               => processed_matches[k].detection = ent.detection

WitTextReuse ==
    /\ Returned
    /\ Len(StoredMatches) = 1
    /\ StoredMatches[1].detection = TRUE
    /\ Len(processed_matches) = 3
    /\ processed_matches[2] = StoredMatches[1]
    /\ Len(calls) = 2

\* C5: with no prior checkpoint entry, when the verifier answers false for
\* every candidate, the returned match list is the whole (merged) candidate
\* list in its order, every entry with detection false, one call each.
InvNoMatch ==
    (/\ Returned
     /\ LastKey \notin DOMAIN existing_results
     /\ \A k \in 1..Len(calls) : ~calls[k].answer) =>
        /\ Len(LastResult.matches) = Len(match_list)
        /\ Len(calls) = Len(match_list)
        /\ \A k \in 1..Len(match_list) :
               FromCandidate(k) /\ LastResult.matches[k].detection = FALSE

WitNoMatch ==
    /\ Returned
    /\ LastKey \notin DOMAIN existing_results
    /\ Len(LastItem.top_20_match_details) = 4
    /\ Len(match_list) = 3
    /\ Len(LastResult.matches) = 3
    /\ \A k \in 1..3 : ~calls[k].answer

\* C6: a query of span_type "Ayah" that is not cache-skipped is merged and
\* then verified on its merged entries under ayah_text, and ends with a
\* result: "Ayah" is not an unrecognized span type.
InvAyahVerified ==
    (/\ pc = "loop"
     /\ qstate \in {"DONE", "ERROR"}
     /\ LastItem.span_type = "Ayah") =>
        /\ qstate = "DONE"
        /\ text_key = "ayah_text"
        /\ LastResult.sequence_id = LastItem.sequence_id
        /\ \A k \in 1..Len(LastResult.matches) :
               LastResult.matches[k].ayah_text = match_list[k].ayah_text

----------------------------------------------------------------------------
(* Properties of the merge *)

\* position <<surah, ayah>> of a record
Pos(r) == LET p == ParseVerseId(r.verse_id) IN <<p.surah_num, p.ayah_num>>

Positions(l) == {Pos(l[i]) : i \in 1..Len(l)}

\* the maximal runs <<surah, first ayah, last ayah>> of consecutive ayahs
Runs(l) ==
    LET P == Positions(l)
    IN  { <<p[1], p[2], q[2]>> : <<p, q>> \in
            { pq \in P \X P :
                /\ pq[1][1] = pq[2][1]
                /\ pq[1][2] <= pq[2][2]
                /\ \A a \in pq[1][2]..pq[2][2] : <<pq[1][1], a>> \in P
                /\ <<pq[1][1], pq[1][2] - 1>> \notin P
                /\ <<pq[1][1], pq[2][2] + 1>> \notin P } }

\* a set of runs as the list ascending by (surah, first ayah)
RECURSIVE Ascending(_)
Ascending(R) ==
    IF R = {} THEN <<>>
    ELSE LET least == CHOOSE r \in R : \A o \in R : o = r \/ TupleLess(r, o)
         IN  <<least>> \o Ascending(R \ {least})

SortedRuns(l) == Ascending(Runs(l))

\* the input record at a position
RecordAt(l, s, a) == l[CHOOSE i \in 1..Len(l) : l[i].verse_id = V(s, a)]

\* reading an emitted verse_id "S:A" or "S:A1-A2" back
IsRangeId(id) ==
    /\ Len(split(id, ":")) = 2
    /\ Len(split(split(id, ":")[2], "-")) = 2

IdSpan(id) ==
    LET parts == split(id, ":")
        ayahs == split(parts[2], "-")
    IN  <<int(parts[1]).val, int(ayahs[1]).val, int(ayahs[Len(ayahs)]).val>>

Ids(l) == [i \in 1..Len(l) |-> l[i].verse_id]

RECURSIVE SpacedTexts(_, _, _, _)
SpacedTexts(l, s, a, last) ==
    IF a = last THEN RecordAt(l, s, a).ayah_text
    ELSE RecordAt(l, s, a).ayah_text \o " " \o SpacedTexts(l, s, a + 1, last)

NoConsecutive(l) ==
    \A i, j \in 1..Len(l) :
        ~(Pos(l[i])[1] = Pos(l[j])[1] /\ Pos(l[j])[2] = Pos(l[i])[2] + 1)

AllParse(l) == \A i \in 1..Len(l) : ParseVerseId(l[i].verse_id).ok

Merged == mphase = "merged" /\ ~merge_raised

\* C7: merge emits exactly the maximal runs of consecutive ayahs of one
\* surah, in ascending (surah, ayah) order, whatever the input order and the
\* scores; {1:1, 1:2, 1:4, 2:1} yields "1:1-2", "1:4", "2:1".
InvMergeGrouping ==
    Merged =>
        /\ LET sruns == SortedRuns(verses_data)
           IN  /\ Len(merged_results) = Len(sruns)
               /\ \A k \in 1..Len(merged_results) :
                      IdSpan(merged_results[k].verse_id) = sruns[k]
        /\ ({verses_data[i].verse_id : i \in 1..Len(verses_data)}
                = {V(1, 1), V(1, 2), V(1, 4), V(2, 1)}
            => Ids(merged_results)
                = << <<"1", ":", "1", "-", "2">>, <<"1", ":", "4">>, <<"2", ":", "1">> >>)

WitMergeGrouping ==
    /\ Merged
    /\ Ids(verses_data) = <<V(2, 1), V(1, 4), V(1, 2), V(1, 1)>>
    /\ Len(merged_results) = 3

\* C8: a merged group of two or more records has the maximum of its
\* members' similarity_score and their ayah_text joined by single spaces in
\* ascending ayah order.
InvMergeAggregation ==
    Merged =>
        LET sruns == SortedRuns(verses_data)
        IN
        /\ Len(merged_results) = Len(sruns)
        /\ \A k \in 1..Len(merged_results) :
               LET run == sruns[k]
                   members == {RecordAt(verses_data, run[1], a) : a \in run[2]..run[3]}
                   e == merged_results[k]
               IN  run[2] < run[3] =>
                       /\ \A m \in members : e.similarity_score >= m.similarity_score
                       /\ \E m \in members : e.similarity_score = m.similarity_score
                       /\ e.ayah_text = SpacedTexts(verses_data, run[1], run[2], run[3])

WitMergeAggregation ==
    /\ Merged
    /\ Ids(verses_data) = <<V(1, 3), V(1, 1), V(1, 2)>>
    /\ verses_data[1].similarity_score = 7
    /\ verses_data[2].similarity_score = 7
    /\ verses_data[3].similarity_score = 9
    /\ Len(merged_results) = 1
    /\ merged_results[1].similarity_score = 9
    /\ merged_results[1].ayah_text = "t1:1 t1:2 t1:3"

\* C9: an entry built from n records of surah S, ayahs A1..A2, has the
\* range verse_id "S:A1-A2" iff n > 1 (then merged_count = n and
\* original_verses lists the members' ids in ascending ayah order), and
\* otherwise the single original id; 2:155 (0.9) and 2:156 (0.7) give
\* "2:155-156", score 0.9, merged_count 2, original_verses [2:155, 2:156].
InvMergedIdentifier ==
    Merged =>
        /\ LET sruns == SortedRuns(verses_data)
           IN
           /\ Len(merged_results) = Len(sruns)
           /\ \A k \in 1..Len(merged_results) :
               LET run == sruns[k]
                   n == run[3] - run[2] + 1
                   e == merged_results[k]
               IN  /\ IsRangeId(e.verse_id) <=> n > 1
                   /\ n > 1 =>
                          /\ IdSpan(e.verse_id) = run
                          /\ e.merged_count = n
                          /\ e.original_verses =
                                 [j \in 1..n |->
                                     RecordAt(verses_data, run[1], run[2] + j - 1).verse_id]
                   /\ n = 1 => e.verse_id = RecordAt(verses_data, run[1], run[2]).verse_id
        /\ (verses_data = <<VerseRecord(V(2, 155), 9), VerseRecord(V(2, 156), 7)>>
            => /\ Len(merged_results) = 1
               /\ merged_results[1].verse_id
                      = <<"2", ":", "1", "5", "5", "-", "1", "5", "6">>
               /\ merged_results[1].similarity_score = 9
               /\ merged_results[1].merged_count = 2
               /\ merged_results[1].original_verses = <<V(2, 155), V(2, 156)>>)

WitMergedIdentifier ==
    /\ Merged
    /\ verses_data = <<VerseRecord(V(2, 155), 9), VerseRecord(V(2, 156), 7)>>
    /\ Len(merged_results) = 1
    /\ merged_results[1].merged_count = 2

\* C10: when no two input records are consecutive ayahs of one surah, merge
\* returns one entry per record, equal to its record field for field, in
\* ascending (surah, ayah) order; merging that output again returns it
\* unchanged; an empty input gives an empty output.
InvMergeSingletons ==
    /\ (Merged /\ NoConsecutive(verses_data)) =>
           /\ Len(merged_results) = Len(verses_data)
           /\ {merged_results[k] : k \in 1..Len(merged_results)}
                  = {verses_data[i] : i \in 1..Len(verses_data)}
           /\ \A k \in 1..(Len(merged_results) - 1) :
                  TupleLess(Pos(merged_results[k]), Pos(merged_results[k + 1]))
    /\ (mphase = "remerged" /\ AllParse(verses_data)) =>
           /\ ~merge_raised
           /\ merged_results = verses_data
    /\ (mphase # "input" /\ verses_data = <<>>) => merged_results = <<>>

WitMergeSingletons ==
    /\ mphase = "remerged"
    /\ Ids(verses_data) = <<V(1, 2), V(1, 4), V(2, 1)>>
    /\ merged_results = verses_data

\* C11: every entry of a merge output, an entry built from a single record
\* included, carries merged_count >= 1 and original_verses, and the length
\* of original_verses equals merged_count.
InvMergedCount ==
    Merged =>
        \A k \in 1..Len(merged_results) :
            /\ "merged_count" \in DOMAIN merged_results[k]
            /\ "original_verses" \in DOMAIN merged_results[k]
            /\ merged_results[k].merged_count >= 1
            /\ Len(merged_results[k].original_verses) = merged_results[k].merged_count

----------------------------------------------------------------------------
(* Properties of a run: errors, checkpoints, resumption *)

\* C12: a query with an unrecognized span_type (and no cache skip) makes
\* zero verifier calls and contributes no result, the run does not abort,
\* the loop moves on to the next query, and the run can only end by writing
\* the final snapshot.
InvConfigErrorIsolated ==
    [][QueryUnknownSpan =>
            /\ calls' = <<>>
            /\ output' = output
            /\ pc' = "loop"
            /\ idx' = idx + 1
            /\ data' = data]_vars

\* C13: right after a query has been processed successfully, the most
\* recently written snapshot holds exactly the results of the queries
\* processed successfully so far, in input order; so when a query fails the
\* earlier results are already in a snapshot; and a completed run has
\* written the final snapshot with all of them.
InvCheckpointPerStep ==
    /\ (pc = "loop" /\ qstate \in {"DONE", "CACHED_SKIP"}) => snapshot = output
    /\ (qstate = "ERROR" /\ output # <<>>) => snapshot = output
    /\ pc = "done" => (final_exists /\ final_file = output)

\* the snapshot left by the interrupted run holds a verdict on this text
\* under this sequence_id
Decided(composite_key, candidate_text) ==
    \E r \in 1..Len(resume_point) :
        /\ CompositeKey(resume_point[r].sequence_id) = composite_key
        /\ \E j \in 1..Len(resume_point[r].matches) :
               LET ent == resume_point[r].matches[j]
               IN  /\ "detection" \in DOMAIN ent
                   /\ text_key \in DOMAIN ent
                   /\ ent[text_key] = candidate_text

\* C14: in a run restarted over the same input after an interruption, no
\* (sequence_id, candidate text) pair decided in the last snapshot the
\* interrupted run saved is sent to the verifier again.
InvResumeFromSnapshot ==
    (resume_point # <<>> /\ pc \in {"matches", "break"}) =>
        \A k \in 1..Len(calls) : ~Decided(Key, calls[k].text)

----------------------------------------------------------------------------
(* quran_search.py: ranking of the verses the word index reports.         *)
(* Scores are exact fractions [num, den] with den > 0.                     *)

CoverageWeight == 1000

Frac(num, den) == [num |-> num, den |-> den]

FracLess(a, b) == a.num * b.den < b.num * a.den

FracEq(a, b) == a.num * b.den = b.num * a.den

\* sorted(positions): the positions of a set of matches, ascending, one
\* entry per match
RECURSIVE sorted_positions(_)
sorted_positions(word_matches) ==
    IF word_matches = {} THEN <<>>
    ELSE LET first == CHOOSE x \in word_matches :
                          \A y \in word_matches : x.position <= y.position
         IN  <<first.position>> \o sorted_positions(word_matches \ {first})

RECURSIVE total_distance(_, _)
total_distance(sorted, i) ==
    IF i >= Len(sorted) THEN 0
    ELSE (sorted[i + 1] - sorted[i]) + total_distance(sorted, i + 1)

_calculate_proximity_score(word_matches) ==
    IF Cardinality(word_matches) <= 1 THEN Frac(0, 1)
    ELSE Frac(total_distance(sorted_positions(word_matches), 1),
              Cardinality(word_matches) - 1)

coverage_score(word_matches, query_words) ==
    Frac(Cardinality({x.word_index : x \in word_matches}), query_words)

\* (coverage_score * 1000) - proximity_score
final_score(coverage, proximity) ==
    Frac(CoverageWeight * coverage.num * proximity.den - proximity.num * coverage.den,
         coverage.den * proximity.den)

\* key = f"{sura_number}:{verse_number}"; "" when no data is loaded or the
\* key is not in the lookup
_get_authentic_verse_text(quran_data, verse_key) ==
    IF quran_data = <<>> THEN ""
    ELSE LET key == V(verse_key[1], verse_key[2])
         IN  IF key \in DOMAIN quran_data.lookup
             THEN quran_data.lookup[key].ayah_text
             ELSE ""

_get_authentic_surah_name(quran_data, sura_number) ==
    IF quran_data = <<>> THEN ""
    ELSE IF sura_number \in DOMAIN quran_data.surah_names
         THEN quran_data.surah_names[sura_number]
         ELSE ""

\* 'if not verse_text: continue'
resolved_any(verse_text) == TRUE

resolved(verse_text) == verse_text # ""

\* the result dictionary of one entry of verse_matches
verse_result(quran_data, entry, query_words) ==
    LET proximity  == _calculate_proximity_score(entry.matches)
        coverage   == coverage_score(entry.matches, query_words)
    IN  [score               |-> final_score(coverage, proximity),
         surah_number        |-> entry.verse_key[1],
         verse_number        |-> entry.verse_key[2],
         verse_text          |-> _get_authentic_verse_text(quran_data, entry.verse_key),
         surah_name_ar       |-> _get_authentic_surah_name(quran_data, entry.verse_key[1]),
         coverage_score      |-> coverage,
         proximity_score     |-> proximity,
         matched_words_count |-> Cardinality(entry.matches),
         total_query_words   |-> query_words]

\* the loop over qualified_verses: a verse without text is skipped
RECURSIVE format_results(_, _, _, _)
format_results(quran_data, verse_matches, i, query_words) ==
    IF i > Len(verse_matches) THEN <<>>
    ELSE LET result == verse_result(quran_data, verse_matches[i], query_words)
         IN  (IF resolved(result.verse_text) THEN <<result>> ELSE <<>>)
                 \o format_results(quran_data, verse_matches, i + 1, query_words)

\* x goes before y in sorted(..., reverse=True)
outranks_reversed(x, y) == FracLess(x.score, y.score)

outranks(x, y) == FracLess(y.score, x.score)

\* sorted(results, key=score, reverse=True): stable, equal scores keep
\* their order
RECURSIVE insert_by_score(_, _)
insert_by_score(sorted, x) ==
    IF sorted = <<>> THEN <<x>>
    ELSE IF outranks(x, sorted[Len(sorted)])
         THEN insert_by_score(SubSeq(sorted, 1, Len(sorted) - 1), x)
                  \o <<sorted[Len(sorted)]>>
         ELSE Append(sorted, x)

RECURSIVE sorted_by_score(_)
sorted_by_score(xs) ==
    IF xs = <<>> THEN <<>>
    ELSE insert_by_score(sorted_by_score(SubSeq(xs, 1, Len(xs) - 1)), xs[Len(xs)])

\* xs[:k] for k >= 0
head(xs, k) == SubSeq(xs, 1, IF k < Len(xs) THEN k ELSE Len(xs))

_rank_and_format_results(quran_data, verse_matches, query_words, k) ==
    IF verse_matches = <<>> THEN <<>>
    ELSE head(sorted_by_score(format_results(quran_data, verse_matches, 1, query_words)), k)

\* verse_word_matches after the loop over the words, its keys in the order
\* given
verse_word_matches(reported, order) ==
    [i \in 1..Len(order) |->
        [verse_key |-> order[i],
         matches   |-> {x \in reported : x.verse_key = order[i]}]]

search_verse_matches(quran_data, query_words, reported, order, k) ==
    IF query_words = 0 THEN <<>>
    ELSE _rank_and_format_results(quran_data, verse_word_matches(reported, order),
                                  query_words, k)

\* all orderings of a finite set
RECURSIVE Orders(_)
Orders(S) ==
    IF S = {} THEN {<<>>}
    ELSE UNION { { <<x>> \o t : t \in Orders(S \ {x}) } : x \in S }

\* the orders in which the keys can enter verse_word_matches: the words are
\* searched in query order, the index reports the matches of one word in an
\* order of its own
InsertionOrders(reported) ==
    LET keys == {x.verse_key : x \in reported}
        first_word(key) ==
            CHOOSE w \in {x.word_index : x \in {y \in reported : y.verse_key = key}} :
                \A x \in {y \in reported : y.verse_key = key} : w <= x.word_index
    IN  {o \in Orders(keys) :
            \A i \in 1..Len(o) : \A j \in i..Len(o) : first_word(o[i]) <= first_word(o[j])}

----------------------------------------------------------------------------
(* Hadith_search.py: top-k selection over the cosine similarities *)

\* the first n records of the corpus
HadithCorpus(n) == [i \in 1..n |-> HadithRecord(10 + i)]

\* hadith.get('hadithID'), <<>> for None
hadith_id(hadith) == getd(hadith, "hadithID", <<>>)

\* what one load appends to hadith_ids
loaded_ids(records) == [i \in 1..Len(records) |-> hadith_id(records[i])]

\* np.argsort(similarities): a permutation of the indices that puts the
\* values in ascending order; the order of equal values is not specified
ArgSorts(sims) ==
    {o \in Orders(1..Len(sims)) :
        \A i \in 1..(Len(o) - 1) : sims[o[i]] <= sims[o[i + 1]]}

\* xs[::-1]
reversed(xs) == [i \in 1..Len(xs) |-> xs[Len(xs) + 1 - i]]

\* the loop over top_indices: only non-zero similarities are included; the
\* id is read from hadith_ids, the other fields from hadith_data
RECURSIVE collect(_, _, _, _, _)
collect(records, ids, sims, top_indices, i) ==
    IF i > Len(top_indices) THEN <<>>
    ELSE LET doc == top_indices[i]
         IN  (IF sims[doc] > 0
              THEN <<[hadithID         |-> ids[doc],
                      similarity_score |-> sims[doc],
                      title            |-> getd(records[doc], "title", ""),
                      hadithTxt        |-> getd(records[doc], "hadithTxt", ""),
                      Matn             |-> getd(records[doc], "Matn", "")]>>
              ELSE <<>>)
                 \o collect(records, ids, sims, top_indices, i + 1)

\* self.hadith_data[idx] raises IndexError for a row beyond hadith_data
search_raises(records, sims, argsort, top_k) ==
    \E i \in 1..Len(head(reversed(argsort), top_k)) :
        LET doc == head(reversed(argsort), top_k)[i]
        IN  sims[doc] > 0 /\ doc > Len(records)

search(records, ids, sims, argsort, top_k) ==
    collect(records, ids, sims, head(reversed(argsort), top_k), 1)

----------------------------------------------------------------------------
(* The search specification: one engine is constructed, one query is      *)
(* searched.                                                               *)

VerseKeys == {<<1, 1>>, <<1, 2>>}

\* word positions inside a verse
WordPositions == {0, 1, 2, 40}

\* number of words of the cleaned query
QueryLengths == {0, 1, 2, 30}

\* indices of the query words that occur in the corpus at all
MatchedWords == {0, 1}

\* what the word index can report for a query of query_words words
MatchSets(query_words) ==
    LET universe == {[word_index |-> w, verse_key |-> key, position |-> p] :
                        w \in {x \in MatchedWords : x < query_words},
                        key \in VerseKeys, p \in WordPositions}
    IN  {S \in SUBSET universe : Cardinality(S) <= MaxMatches}

\* the loaded reference file: every verse but those of missing, with an
\* empty text for those of empty
QuranData(missing, empty) ==
    [lookup      |-> [key \in {V(k[1], k[2]) : k \in VerseKeys \ missing} |->
                         [ayah_text  |-> IF \E k \in empty : key = V(k[1], k[2])
                                         THEN "" ELSE AyahText(key),
                          surah_name |-> SurahName(key)]],
     surah_names |-> [sura \in {k[1] : k \in VerseKeys \ missing} |->
                         SurahName(str(sura))]]

\* no file, a complete file, a file without verse 1:1, a file with an empty
\* text for verse 1:2
QuranDataSets ==
    { <<>>, QuranData({}, {}), QuranData({<<1, 1>>}, {}), QuranData({}, {<<1, 2>>}) }

Sims == {0, 3, 7}

SimilarityLists ==
    UNION { [1..n -> Sims] : n \in 1..MaxDocs }

InitSearch ==
    /\ impl = "verifier"
    /\ mphase = "input"
    /\ verses_data = <<>>
    /\ merged_results = <<>>
    /\ merge_raised = FALSE
    /\ IdleRun
    /\ engine \in {"quran", "hadith"}
    /\ sphase = "input"
    /\ total_query_words = 0
    /\ search_results = {}
    /\ authentic_quran_data \in (IF engine = "quran" THEN QuranDataSets ELSE {<<>>})
    /\ similarities = <<>>
    /\ max_results = 0
    /\ results = <<>>
    /\ IdleLoad

\* QuranSearchEngine.search_verse_matches(search_query, max_results)
QuranSearch ==
    /\ engine = "quran"
    /\ sphase = "input"
    /\ \E query_words \in QueryLengths, k \in 0..MaxResults :
           \E reported \in MatchSets(query_words) :
               \E order \in InsertionOrders(reported) :
                   /\ total_query_words' = query_words
                   /\ search_results' = reported
                   /\ max_results' = k
                   /\ results' = search_verse_matches(authentic_quran_data, query_words,
                                                      reported, order, k)
    /\ sphase' = "searched"
    /\ UNCHANGED <<impl, loadVars, mergeVars, fileVars, runVars, queryVars, engine,
                   authentic_quran_data, similarities>>

\* HadithSearchEngine.search(query, top_k) on a built index
HadithSearch ==
    /\ engine = "hadith"
    /\ sphase = "input"
    /\ \E sims \in SimilarityLists, k \in 0..MaxResults :
           \E argsort \in ArgSorts(sims) :
               /\ similarities' = sims
               /\ max_results' = k
               /\ results' = search(HadithCorpus(Len(sims)),
                                  loaded_ids(HadithCorpus(Len(sims))), sims, argsort, k)
    /\ sphase' = "searched"
    /\ UNCHANGED <<impl, loadVars, mergeVars, fileVars, runVars, queryVars, engine,
                   total_query_words, search_results, authentic_quran_data>>

NextSearch == QuranSearch \/ HadithSearch

SpecSearch == InitSearch /\ [][NextSearch]_vars

----------------------------------------------------------------------------
(* Hadith_search.py: loading the corpus and building the index.  The      *)
(* texts that preprocess_arabic_text rewrites are sequences of             *)
(* one-character strings over letters, white space and braces.             *)

WhiteSpace == {" ", "\n"}

\* re.sub(r'\s+', ' ', text)
RECURSIVE collapse_whitespace(_)
collapse_whitespace(text) ==
    IF text = <<>> THEN <<>>
    ELSE IF text[1] \in WhiteSpace
         THEN IF Len(text) > 1 /\ text[2] \in WhiteSpace
              THEN collapse_whitespace(Tail(text))
              ELSE <<" ">> \o collapse_whitespace(Tail(text))
         ELSE <<text[1]>> \o collapse_whitespace(Tail(text))

\* text.strip()
RECURSIVE strip(_)
strip(text) ==
    IF text = <<>> THEN <<>>
    ELSE IF text[1] \in WhiteSpace THEN strip(Tail(text))
    ELSE IF text[Len(text)] \in WhiteSpace THEN strip(SubSeq(text, 1, Len(text) - 1))
    ELSE text

\* re.sub(r'[{}]', '', text)
remove_braces(text) == SelectSeq(text, LAMBDA c : c \notin {"{", "}"})

\* the alphabet of the texts has no diacritic, tatweel or lam-alef
\* ligature: the substitutions for those find nothing to rewrite
preprocess_arabic_text(text) ==
    IF text = <<>> THEN <<>>
    ELSE remove_braces(strip(collapse_whitespace(text)))

\* hadith.get(field) is truthy
present(hadith, field) == field \in DOMAIN hadith /\ hadith[field] # <<>>

\* the searchable text of one record: hadithTxt, then " " and Matn, then
\* " " and title, each preprocessed, each only when it is not empty
searchable_text(hadith) ==
    (IF present(hadith, "hadithTxt")
     THEN preprocess_arabic_text(hadith.hadithTxt) ELSE <<>>)
    \o (IF present(hadith, "Matn")
        THEN <<" ">> \o preprocess_arabic_text(hadith.Matn) ELSE <<>>)
    \o (IF present(hadith, "title")
        THEN <<" ">> \o preprocess_arabic_text(hadith.title) ELSE <<>>)

\* what one load appends to hadith_texts
loaded_texts(records) == [i \in 1..Len(records) |-> searchable_text(records[i])]

Hadith(id, txt, matn, title) ==
    [hadithID |-> id, hadithTxt |-> txt, Matn |-> matn, title |-> title]

\* two corpus files
CorpusA ==
    << Hadith(11, <<"a", " ", " ", "b">>, <<>>, <<>>),
       Hadith(12, <<"{", "c", "}">>, <<"d">>, <<>>),
       Hadith(13, <<"e">>, <<>>, <<"t">>) >>

CorpusB ==
    << Hadith(21, <<"f", "\n">>, <<>>, <<>>),
       Hadith(22, <<>>, <<"g">>, <<"u">>),
       Hadith(23, <<"h">>, <<>>, <<>>) >>

\* the lists a load can be handed: the first records of a corpus file,
\* the empty list included
LoadCorpora ==
    {head(corpus, n) : corpus \in {CorpusA, CorpusB}, n \in 0..MaxLoadDocs}

InitLoad ==
    /\ impl = "verifier"
    /\ mphase = "input"
    /\ verses_data = <<>>
    /\ merged_results = <<>>
    /\ merge_raised = FALSE
    /\ IdleRun
    /\ engine = "hadith"
    /\ sphase = "input"
    /\ total_query_words = 0
    /\ search_results = {}
    /\ authentic_quran_data = <<>>
    /\ similarities = <<>>
    /\ max_results = 0
    /\ results = <<>>
    /\ IdleLoad

\* the body shared by the two loaders: hadith_data is replaced, the texts
\* and ids of the records are appended
Load(records) ==
    /\ hadith_data' = records
    /\ hadith_texts' = hadith_texts \o loaded_texts(records)
    /\ hadith_ids' = hadith_ids \o loaded_ids(records)
    /\ index_fresh' = FALSE
    /\ loads' = loads + 1
    /\ UNCHANGED <<impl, mergeVars, fileVars, runVars, queryVars, searchVars,
                   tfidf_matrix, search_raised>>

\* HadithSearchEngine.load_data(hadith_json_data)
LoadData ==
    /\ sphase = "input"
    /\ loads < MaxLoads
    /\ \E records \in LoadCorpora : Load(records)

\* HadithSearchEngine.load_data_from_file(json_file_path), the file holding
\* a list of records
LoadDataFromFile ==
    /\ sphase = "input"
    /\ loads < MaxLoads
    /\ \E file \in LoadCorpora : Load(file)

\* HadithSearchEngine.build_index(), which raises while hadith_data is
\* empty: one row per entry of hadith_texts
BuildIndex ==
    /\ sphase = "input"
    /\ hadith_data # <<>>
    /\ tfidf_matrix' = hadith_texts
    /\ index_fresh' = TRUE
    /\ UNCHANGED <<impl, mergeVars, fileVars, runVars, queryVars, searchVars,
                   hadith_data, hadith_texts, hadith_ids, loads, search_raised>>

\* HadithSearchEngine.search(query, top_k) on the engine as it was loaded
SearchIndex ==
    /\ sphase = "input"
    /\ tfidf_matrix # <<>>
    /\ \E sims \in [1..Len(tfidf_matrix) -> Sims], k \in 0..MaxResults :
           \E argsort \in ArgSorts(sims) :
               /\ similarities' = sims
               /\ max_results' = k
               /\ search_raised' = search_raises(hadith_data, sims, argsort, k)
               /\ results' = IF search_raises(hadith_data, sims, argsort, k)
                             THEN <<>>
                             ELSE search(hadith_data, hadith_ids, sims, argsort, k)
    /\ sphase' = "searched"
    /\ UNCHANGED <<impl, mergeVars, fileVars, runVars, queryVars, engine,
                   total_query_words, search_results, authentic_quran_data,
                   hadith_data, hadith_texts, hadith_ids, tfidf_matrix, index_fresh,
                   loads>>

NextLoad == LoadData \/ LoadDataFromFile \/ BuildIndex \/ SearchIndex

SpecLoad == InitLoad /\ [][NextLoad]_vars

----------------------------------------------------------------------------
(* Properties of the Quran search *)

QuranSearched == engine = "quran" /\ sphase = "searched"

MatchesOf(key) == {x \in search_results : x.verse_key = key}

\* position of the verse in the results, 0 when it is not among them
IndexOf(key) ==
    IF \E i \in 1..Len(results) :
           results[i].surah_number = key[1] /\ results[i].verse_number = key[2]
    THEN CHOOSE i \in 1..Len(results) :
             results[i].surah_number = key[1] /\ results[i].verse_number = key[2]
    ELSE 0

QueryWordIndices == 0..(total_query_words - 1)

\* the query occurs in the verse as a phrase: its words at adjacent
\* positions, in query order
Phrase(key) ==
    \E p \in WordPositions :
        \A w \in QueryWordIndices :
            \E x \in MatchesOf(key) : x.word_index = w /\ x.position = p + w

\* every query word occurs in the verse, but no stretch of as many adjacent
\* positions as the query has words holds them all
Scattered(key) ==
    /\ \A w \in QueryWordIndices : \E x \in MatchesOf(key) : x.word_index = w
    /\ ~\E p \in WordPositions :
           \A w \in QueryWordIndices :
               \E x \in MatchesOf(key) :
                   x.word_index = w /\ x.position \in p..(p + total_query_words - 1)

\* C15: of two returned verses with equal coverage, one holding all query
\* words contiguously and one holding them discontiguously, the contiguous
\* one is ranked above the other.
InvContiguousFirst ==
    QuranSearched =>
        \A a \in VerseKeys, b \in VerseKeys :
            (/\ Phrase(a)
             /\ Scattered(b)
             /\ IndexOf(a) # 0
             /\ IndexOf(b) # 0
             /\ FracEq(results[IndexOf(a)].coverage_score,
                       results[IndexOf(b)].coverage_score)) =>
                IndexOf(a) < IndexOf(b)

\* C16: of two returned verses, one whose coverage exceeds the other's by
\* more than 0.001 is ranked above it, whatever the proximity values are.
InvCoverageDominates ==
    QuranSearched =>
        \A i \in 1..Len(results), j \in 1..Len(results) :
            LET ca == results[i].coverage_score
                cb == results[j].coverage_score
            IN  (1000 * (ca.num * cb.den - cb.num * ca.den) > ca.den * cb.den) => i < j

\* the verses in which the word index found a query word
MatchedKeys == {x.verse_key : x \in search_results}

\* the reference lookup holds a non-empty text for the verse
Resolvable(key) ==
    /\ authentic_quran_data # <<>>
    /\ V(key[1], key[2]) \in DOMAIN authentic_quran_data.lookup
    /\ authentic_quran_data.lookup[V(key[1], key[2])].ayah_text # ""

Candidates == {key \in MatchedKeys : Resolvable(key)}

ResultKey(i) == <<results[i].surah_number, results[i].verse_number>>

Smaller(a, b) == IF a < b THEN a ELSE b

\* C17: every returned verse has a non-empty verse_text, the one the
\* reference lookup holds under its "surah:ayah" key; a matched verse
\* without (or with an empty) lookup text is in no result and takes none of
\* the max_results places; without reference data nothing is returned.
InvAuthenticText ==
    QuranSearched =>
        /\ \A i \in 1..Len(results) :
               /\ results[i].verse_text # ""
               /\ Resolvable(ResultKey(i))
               /\ results[i].verse_text =
                      authentic_quran_data.lookup[V(ResultKey(i)[1], ResultKey(i)[2])].ayah_text
        /\ \A key \in MatchedKeys : ~Resolvable(key) => IndexOf(key) = 0
        /\ Len(results) = Smaller(max_results, Cardinality(Candidates))
        /\ authentic_quran_data = <<>> => results = <<>>

\* verse 1:2 matches both query words but has an empty reference text;
\* verse 1:1 matches one word and fills the single place
WitAuthenticText ==
    /\ QuranSearched
    /\ max_results = 1
    /\ total_query_words = 2
    /\ authentic_quran_data = QuranData({}, {<<1, 2>>})
    /\ {x.word_index : x \in MatchesOf(<<1, 2>>)} = {0, 1}
    /\ {x.word_index : x \in MatchesOf(<<1, 1>>)} = {0}
    /\ Len(results) = 1
    /\ ResultKey(1) = <<1, 1>>
    /\ results[1].verse_text = AyahText(V(1, 1))

\* the score of a matched verse
Score(key) ==
    final_score(coverage_score(MatchesOf(key), total_query_words),
                _calculate_proximity_score(MatchesOf(key)))

\* C19: for max_results >= 0 the search returns the max_results
\* highest-scoring resolvable matched verses (all of them when there are
\* fewer), each once, in non-increasing score order; every returned verse
\* is one in which a query word was found, with 0 < coverage <= 1.
InvTopResults ==
    QuranSearched =>
        /\ Len(results) = Smaller(max_results, Cardinality(Candidates))
        /\ \A i \in 1..Len(results) :
               /\ ResultKey(i) \in Candidates
               /\ FracEq(results[i].score, Score(ResultKey(i)))
               /\ 0 < results[i].coverage_score.num
               /\ results[i].coverage_score.num <= results[i].coverage_score.den
               /\ \A j \in (i + 1)..Len(results) :
                      /\ ResultKey(j) # ResultKey(i)
                      /\ ~FracLess(results[i].score, results[j].score)
        /\ \A key \in Candidates :
               IndexOf(key) = 0 =>
                   \A i \in 1..Len(results) : ~FracLess(results[i].score, Score(key))

\* two resolvable verses compete for one place and the one entered second,
\* with the higher score, gets it; with two places it comes first
WitTopResults ==
    /\ QuranSearched
    /\ Cardinality(Candidates) = 2
    /\ FracLess(Score(<<1, 1>>), Score(<<1, 2>>))
    /\ {x.word_index : x \in MatchesOf(<<1, 1>>)} = {0}
    /\ {x.word_index : x \in MatchesOf(<<1, 2>>)} = {1}
    /\ max_results = 2
    /\ Len(results) = 2
    /\ ResultKey(1) = <<1, 2>>
    /\ ResultKey(2) = <<1, 1>>

\* position of a returned record in the corpus
CorpusIndex(i) ==
    CHOOSE d \in 1..Len(similarities) :
        HadithCorpus(Len(similarities))[d].hadithID = results[i].hadithID

\* C18: the Hadith search returns at most top_k entries, each with a score
\* above 0, in non-increasing score order, entries of equal score in corpus
\* order.
InvHadithOrder ==
    (engine = "hadith" /\ sphase = "searched") =>
        /\ Len(results) <= max_results
        /\ \A i \in 1..Len(results) :
               /\ results[i].similarity_score > 0
               /\ \A j \in (i + 1)..Len(results) :
                      /\ results[i].similarity_score >= results[j].similarity_score
                      /\ results[i].similarity_score = results[j].similarity_score
                             => CorpusIndex(i) < CorpusIndex(j)

----------------------------------------------------------------------------
(* Properties of merge_ayas_from_retrieval on unparsable input *)

Unparsable(l) == {i \in 1..Len(l) : ~ParseVerseId(l[i].verse_id).ok}

\* C20: when some records of the input have a verse_id that does not parse
\* as "integer:integer", merge does not raise, and each such record is
\* emitted as an entry of its own with its fields unchanged, joined into no
\* group.
InvUnparsableSingleton ==
    (mphase # "input" /\ Unparsable(verses_data) # {}) =>
        /\ ~merge_raised
        /\ \A i \in Unparsable(verses_data) :
               /\ \E k \in 1..Len(merged_results) : merged_results[k] = verses_data[i]
               /\ \A k \in 1..Len(merged_results) :
                      ("original_verses" \in DOMAIN merged_results[k]
                           /\ merged_results[k] # verses_data[i]) =>
                          \A j \in 1..Len(merged_results[k].original_verses) :
                              merged_results[k].original_verses[j] # verses_data[i].verse_id

\* C21: in the output of merge, a record whose verse_id cannot be parsed
\* stays at the position it had in the input and is not moved by the sort
\* that orders the parsable records (stated where no group has joined two
\* records, so that input and output positions correspond one to one).
InvUnparsablePosition ==
    (/\ mphase # "input"
     /\ ~merge_raised
     /\ Len(merged_results) = Len(verses_data)) =>
        \A i \in Unparsable(verses_data) : merged_results[i] = verses_data[i]

----------------------------------------------------------------------------
(* Properties of a run: failures inside a query *)

\* C22: a candidate that lacks the selected text_key field is skipped and
\* the rest of the query's candidates are still verified: the query goes on
\* with the next candidate, keeps what it has collected, and is not failed
\* as a whole.
InvMissingTextSkipped ==
    [][MatchMissingText =>
            /\ pc' = "matches"
            /\ mi' = mi + 1
            /\ idx' = idx
            /\ qstate' = "VERIFYING"
            /\ processed_matches' = processed_matches]_vars

\* C23: in the package, when the verifier call raises for a candidate, no
\* detection value (neither true nor false) is recorded for that candidate,
\* the query is errored and contributes no result to the output or to any
\* saved file, and the run continues with the next query.
InvVerifierFailure ==
    [][(impl = "verifier" /\ MatchVerifyRaises) =>
            /\ processed_matches' = processed_matches
            /\ output' = output
            /\ fileVars' = fileVars
            /\ qstate' = "ERROR"
            /\ pc' = "loop"
            /\ idx' = idx + 1
            /\ data' = data]_vars

\* the second call of a query has raised after a false answer, an earlier
\* query of the run has its result in the output, and the run is back in
\* its loop
WitVerifierFailure ==
    /\ impl = "verifier"
    /\ pc = "loop"
    /\ qstate = "ERROR"
    /\ Len(calls) = 2
    /\ calls[1].answer = FALSE
    /\ "answer" \notin DOMAIN calls[2]
    /\ Len(processed_matches) = 1
    /\ idx = 3
    /\ outcomes = <<"DONE", "ERROR">>
    /\ Len(output) = 1
    /\ snapshot = output

----------------------------------------------------------------------------
(* Properties of the final file *)

\* C24: when a file exists at the final location but cannot be loaded as a
\* checkpoint, the run does not overwrite it with its own final snapshot.
InvForeignFinalKept ==
    [][(SaveFinal /\ final_exists /\ ~final_loadable) =>
            (~final_loadable' /\ final_file' = final_file)]_vars

----------------------------------------------------------------------------
(* Properties of the order of a run *)

\* the positions of the queries that ended without an error, ascending
Kept(outs) ==
    LET Test(i) == outs[i] # "ERROR"
    IN  SelectSeq([i \in 1..Len(outs) |-> i], Test)

\* the candidate at position p of the current list has this text
HasText(p, text) ==
    text_key \in DOMAIN match_list[p] /\ match_list[p][text_key] = text

\* C25: verifier calls are made for one query at a time, only once every
\* earlier query of the input has ended, and within a query in (merged)
\* candidate order; the output lists results in input order: it is the
\* input sequence with the errored queries left out, and that is what a
\* completed run has saved.
InvSequentialOrder ==
    /\ Len(outcomes) <= Len(data)
    /\ pc \in {"matches", "break"} => (qstate = "VERIFYING" /\ Len(outcomes) = idx - 1)
    /\ pc = "loop" => Len(outcomes) = idx - 1
    /\ (calls # <<>> /\ pc # "idle") =>
           /\ \A k \in 1..Len(calls) :
                  \E p \in k..Len(match_list) : HasText(p, calls[k].text)
           /\ \A k, l \in 1..Len(calls) :
                  k < l => \E p, q \in 1..Len(match_list) :
                               /\ p < q
                               /\ HasText(p, calls[k].text)
                               /\ HasText(q, calls[l].text)
    /\ LET kept == Kept(outcomes)
       IN  /\ Len(output) = Len(kept)
           /\ \A k \in 1..Len(kept) : output[k].sequence_id = data[kept[k]].sequence_id
    /\ pc = "done" => (final_exists /\ final_loadable /\ final_file = output)

\* a completed run over two queries: the first errored, the second got a
\* fresh result made with two calls, and only that result was saved
WitSequentialOrder ==
    /\ pc = "done"
    /\ Len(data) = 2
    /\ outcomes = <<"ERROR", "DONE">>
    /\ Len(output) = 1
    /\ output[1].sequence_id = data[2].sequence_id
    /\ Len(calls) = 2
    /\ final_file = output

----------------------------------------------------------------------------
(* Properties of the states of a query *)

Terminal == {"DONE", "CACHED_SKIP", "ERROR"}

\* one step of the state of the query the run is at: a new run starts with
\* its first query PENDING; a query leaves PENDING (the run is in its loop)
\* for CACHED_SKIP, VERIFYING or ERROR; VERIFYING ends in DONE or ERROR;
\* each end is recorded once
QueryTransition ==
    \/ qstate' = qstate /\ outcomes' = outcomes
    \/ pc \in {"idle", "done", "crashed"} /\ qstate' = "PENDING" /\ outcomes' = <<>>
    \/ pc = "loop" /\ qstate' = "VERIFYING" /\ outcomes' = outcomes
    \/ pc = "loop" /\ qstate' \in {"CACHED_SKIP", "ERROR"}
                  /\ outcomes' = Append(outcomes, qstate')
    \/ qstate = "VERIFYING" /\ qstate' \in {"DONE", "ERROR"}
                            /\ outcomes' = Append(outcomes, qstate')

\* C26: in a run that is not interrupted, over a finite input and with a
\* verifier that always returns or raises, every query goes from PENDING to
\* exactly one terminal state, DONE (through CACHED_SKIP or VERIFYING) or
\* ERROR, no verifier call is made on the CACHED_SKIP path, and the run of
\* the package eventually finishes and writes the final snapshot.
InvQueryStateMachine ==
    /\ [][QueryTransition]_vars
    /\ [](pc \in {"matches", "break"} => qstate = "VERIFYING")
    /\ [](qstate = "CACHED_SKIP" => calls = <<>>)
    /\ [](\A i \in 1..Len(outcomes) : outcomes[i] \in Terminal)
    /\ [](pc = "done" => /\ Len(outcomes) = Len(data)
                         /\ final_exists
                         /\ final_file = output)
    /\ ((impl = "verifier" /\ pc = "loop") ~> (pc = "done"))

\* a second run of the package has finished: its first query was skipped
\* from the checkpoint, its second one ended in an error
WitQueryStateMachine ==
    /\ impl = "verifier"
    /\ pc = "done"
    /\ runs = 2
    /\ outcomes = <<"CACHED_SKIP", "ERROR">>
    /\ final_file = output
    /\ Len(output) = 1

----------------------------------------------------------------------------
(* Properties of the checkpoint store *)

Running == pc \in {"loop", "matches", "break"}

\* what load_existing_results makes of the final file as it is now
Loaded ==
    IF final_loadable THEN load_existing_results(final_exists, final_file) ELSE <<>>

\* C27: existing_results is read-only during a run: only the loading at the
\* start of a run changes it, so while a run is under way it is what the
\* final file held at the start, whatever the run has produced; a query
\* whose sequence_id is not in it is verified without any reuse, even when
\* an earlier query of the same run had the same sequence_id.
InvStoreReadOnly ==
    /\ [][existing_results' # existing_results =>
              (pc \in {"idle", "done", "crashed"} /\ pc' = "loop")]_vars
    /\ [](Running => existing_results = Loaded)
    /\ []((pc = "loop" /\ qstate = "CACHED_SKIP") => LastKey \in DOMAIN existing_results)
    /\ []((pc \in {"matches", "break"} /\ Key \notin DOMAIN existing_results) =>
              Len(calls) = Len(processed_matches))

\* in a run with an empty store, the second query has the sequence_id of
\* the first, whose result is already in the output, and is verified anew
WitStoreReadOnly ==
    /\ pc = "loop"
    /\ existing_results = <<>>
    /\ outcomes = <<"DONE", "DONE">>
    /\ data[1].sequence_id = data[2].sequence_id
    /\ output[1].sequence_id = output[2].sequence_id
    /\ Len(calls) = Len(output[2].matches)
    /\ Len(calls) >= 1

----------------------------------------------------------------------------
(* Conservation properties of the merge *)

\* the verse_ids of the input records an output entry stands for: a record
\* returned as it came in is a group of one, a merged entry lists its group
Members(entry, input) ==
    IF \E i \in 1..Len(input) : input[i] = entry
    THEN <<entry.verse_id>>
    ELSE IF "original_verses" \in DOMAIN entry THEN entry.original_verses
    ELSE <<>>

RECURSIVE Flatten(_)
Flatten(seqs) == IF seqs = <<>> THEN <<>> ELSE seqs[1] \o Flatten(Tail(seqs))

Count(xs, x) == Cardinality({i \in 1..Len(xs) : xs[i] = x})

IsPermutation(xs, ys) ==
    /\ Len(xs) = Len(ys)
    /\ \A i \in 1..Len(xs) : Count(xs, xs[i]) = Count(ys, xs[i])

\* C28: merge conserves its input: there are at most as many output entries
\* as input records, and as many exactly when no group has more than one
\* member; the group sizes sum to the input length; the verse_ids across
\* all groups are a permutation of the input verse_ids; no output entry has
\* a helper field; and the call leaves the input list and its records as
\* they were.
InvMergeConserves ==
    /\ [][(MergeCall => verses_data' = verses_data)
            /\ (MergeAgain => verses_data' = merged_results)]_vars
    /\ []((mphase # "input" /\ ~merge_raised) =>
            LET members == [k \in 1..Len(merged_results) |->
                                Members(merged_results[k], verses_data)]
            IN  /\ Len(merged_results) <= Len(verses_data)
                /\ (Len(merged_results) = Len(verses_data)) <=>
                       (\A k \in 1..Len(members) : Len(members[k]) = 1)
                /\ \A k \in 1..Len(members) : Len(members[k]) >= 1
                /\ Len(Flatten(members)) = Len(verses_data)
                /\ IsPermutation(Flatten(members), Ids(verses_data))
                /\ \A k \in 1..Len(merged_results) :
                       /\ "surah_num" \notin DOMAIN merged_results[k]
                       /\ "ayah_num" \notin DOMAIN merged_results[k])

\* four records given out of order became a group of three and a single
\* record, and the input list is still in its order, without helper fields
WitMergeConserves ==
    /\ mphase = "merged"
    /\ ~merge_raised
    /\ Ids(verses_data) = <<V(1, 3), V(2, 1), V(1, 2), V(1, 1)>>
    /\ Len(merged_results) = 2
    /\ merged_results[1].merged_count = 3
    /\ merged_results[2] = verses_data[2]
    /\ \A i \in 1..4 : "surah_num" \notin DOMAIN verses_data[i]

----------------------------------------------------------------------------
(* Properties of the final snapshot *)

\* C29: the final snapshot written at the end of a run is exactly the list
\* of the results of the queries this run processed successfully, in input
\* order: the stored entry for a query that was cache-skipped, a new result
\* for a query that was verified, nothing for a query that errored, and
\* nothing for a stored sequence_id that is not in the input.
InvFinalSnapshot ==
    pc = "done" =>
        LET kept == Kept(outcomes)
        IN  /\ final_exists
            /\ final_loadable
            /\ Len(outcomes) = Len(data)
            /\ Len(final_file) = Len(kept)
            /\ \A k \in 1..Len(kept) :
                   LET item == data[kept[k]]
                   IN  /\ final_file[k].sequence_id = item.sequence_id
                       /\ outcomes[kept[k]] = "CACHED_SKIP" =>
                              /\ CompositeKey(item.sequence_id) \in DOMAIN existing_results
                              /\ final_file[k] = existing_results[CompositeKey(item.sequence_id)]
                       /\ outcomes[kept[k]] = "DONE" =>
                              /\ final_file[k].id = item.question_id
                              /\ final_file[k].query = item.query_text
                              /\ final_file[k].span_type = item.span_type
            /\ \A key \in DOMAIN existing_results :
                   (\A i \in 1..Len(data) : CompositeKey(data[i].sequence_id) # key) =>
                       \A k \in 1..Len(final_file) :
                           CompositeKey(final_file[k].sequence_id) # key

\* the second run has finished over an input without the sequence_id the
\* first run had stored: the new final snapshot holds only the new result
WitFinalSnapshot ==
    /\ pc = "done"
    /\ runs = 2
    /\ DOMAIN existing_results = {CompositeKey(1)}
    /\ Len(data) = 1
    /\ data[1].sequence_id = 2
    /\ outcomes = <<"DONE">>
    /\ Len(final_file) = 1
    /\ final_file[1].sequence_id = 2

----------------------------------------------------------------------------
(* Properties of the loaded Hadith engine *)

\* C30: after any sequence of loads on one engine, hadith_texts, hadith_ids
\* and hadith_data have the same length and position i of each refers to
\* the same record, and a search on an index built after the last load
\* reports each row with the id and the fields of the record at that
\* position.
InvHadithAlignment ==
    /\ Len(hadith_texts) = Len(hadith_data)
    /\ Len(hadith_ids) = Len(hadith_data)
    /\ \A i \in 1..Len(hadith_data) :
           /\ hadith_ids[i] = hadith_id(hadith_data[i])
           /\ hadith_texts[i] = searchable_text(hadith_data[i])
    /\ (sphase = "searched" /\ index_fresh) =>
           /\ ~search_raised
           /\ \A j \in 1..Len(results) :
                  \E i \in 1..Len(hadith_data) :
                      /\ results[j].similarity_score = similarities[i]
                      /\ results[j].hadithID = hadith_data[i].hadithID
                      /\ results[j].hadithTxt = hadith_data[i].hadithTxt
                      /\ results[j].Matn = hadith_data[i].Matn
                      /\ results[j].title = hadith_data[i].title

====
